---- MODULE Spec2Model ----
(***************************************************************************)
(* Registration wizard of Velvet Metal: the Register page component, the   *)
(* ProfileCreation form component, and the collaborators they call         *)
(* (identity provider, blob storage, relational store, object URLs).       *)
(***************************************************************************)
EXTENDS Integers, Sequences, FiniteSets, TLC

(* ------------------------------ bounds --------------------------------- *)
\* object URLs the browser hands out in one behaviour
MaxUrls == 3
\* onSubmit invocations of ProfileCreation followed in one behaviour
MaxSubmits == 2
\* navigations from outside the wizard followed in one behaviour
MaxNavs == 2

(* ----------------------------- constants ------------------------------- *)
\* the null of File | null (a record, so that it compares with files)
NoFile == [name |-> <<>>, type |-> <<>>, size |-> -1]
NoUrl == 0
NoUser == "NoUser"
NoToast == "none"
Null == "null"

\* no storage.uploadFile call in flight
NoUpload == [bucket |-> "", path |-> <<>>, uid |-> NoUser]

\* 2 * 1024 * 1024, the size limit of handleFileUpload
MaxAvatarBytes == 2 * 1024 * 1024

ImagePrefix == <<"i", "m", "a", "g", "e", "/">>
ImagePng == <<"i", "m", "a", "g", "e", "/", "p", "n", "g">>
ApplicationPdf == <<"a", "p", "p", "l", "i", "c", "a", "t", "i", "o", "n", "/", "p", "d", "f">>

\* files the user can pick or drop: name, MIME type, size in bytes
Files ==
  { [name |-> <<"a", ".", "p", "n", "g">>, type |-> ImagePng, size |-> 1000],
    [name |-> <<"b", ".", "p", "n", "g">>, type |-> ImagePng, size |-> MaxAvatarBytes],
    [name |-> <<"c", ".", "p", "n", "g">>, type |-> ImagePng, size |-> MaxAvatarBytes + 1],
    [name |-> <<"d", ".", "p", "n", "g">>, type |-> ImagePng, size |-> 3000000],
    [name |-> <<"e", ".", "p", "d", "f">>, type |-> ApplicationPdf, size |-> 1000],
    [name |-> <<"f">>, type |-> <<>>, size |-> 3000000],
    [name |-> <<"g", ".", "h", ".", "i", "/", "j">>, type |-> ImagePng, size |-> 1000] }

\* the services that can be connected (tidal is rendered disabled)
Services == {"spotify", "apple-music"}
\* rows of the subscription_tiers table; price in cents
TierRows == {[id |-> "a", price |-> 0], [id |-> "b", price |-> 999]}

Steps == <<"account", "subscription", "services">>
StepSet == {Steps[i] : i \in 1..Len(Steps)}
\* values of the step query parameter at mount: absent, the steps, junk
UrlParams == {Null, "account", "subscription", "services", "bogus"}

FieldNames == {"email", "display_name", "password", "confirmPassword"}
\* what the user types into each input
FieldValues ==
  [n \in FieldNames |->
     CASE n = "email" -> {"", "e@x"}
       [] n = "display_name" -> {"", "dn"}
       [] n = "password" -> {"", "p", "q"}
       [] n = "confirmPassword" -> {"", "p", "q"}]

ToastMismatch == "Passwords do not match"
ToastTooBig == "Avatar image must be less than 2MB"
ToastNotImage == "Please upload an image file"
ToastRegistration == "An error occurred during registration"

VARIABLES
  mounted,        \* which component is on the page: "Register", "ProfileCreation", "none"
  currentStep,    \* Register: useState<Step>
  urlStep,        \* step query parameter of the location
  loading,        \* Register: useState(false)
  formData,       \* Register: useState({...})
  previewUrl,     \* Register: useState<string | null>
  isDragging,     \* Register: useState(false)
  urls,           \* object URLs created and not yet revoked
  created,        \* number of object URLs created so far
  pc,             \* position of the running handleRegister, "idle" when none runs
  inflight,       \* formData fields the running handleRegister closed over
  effects,        \* collaborator calls of the latest handleRegister, in order
  registered,     \* accounts the identity provider holds
  toast,          \* toast.error message shown by the latest step, NoToast when none
  pcFormData,     \* ProfileCreation: useState<ProfileFormData>
  pcPreviewUrl,   \* ProfileCreation: useState<string | null>
  pcIsDragging,   \* ProfileCreation: useState(false)
  pcLoading,      \* ProfileCreation: the loading prop
  onSubmitCalls,  \* ProfileCreation: number of onSubmit(formData) invocations
  subscriptionTiers, \* Register: result of the subscription-tiers query
  user,           \* Register: user of useAuth()
  db,             \* the user_services rows of the user, per service
  connectedServices, \* Register: result of useConnectedServices()
  syncStatuses,   \* Register: result of the syncStatuses query
  location,       \* path of the navigable location
  historyDepth,   \* session-history entries pushed by navigation from outside
  uploadRequest   \* the storage.uploadFile call in flight: bucket, path, caller

vars == <<mounted, currentStep, urlStep, loading, formData, previewUrl, isDragging,
          urls, created, pc, inflight, effects, registered, toast,
          pcFormData, pcPreviewUrl, pcIsDragging, pcLoading, onSubmitCalls,
          subscriptionTiers, user, db, connectedServices, syncStatuses, location,
          historyDepth, uploadRequest>>

regVars == <<currentStep, urlStep, loading, formData, previewUrl, isDragging,
             pc, inflight, effects, registered>>
pcVars == <<pcFormData, pcPreviewUrl, pcIsDragging, pcLoading, onSubmitCalls>>
wizVars == <<subscriptionTiers, user, db, connectedServices, syncStatuses, location>>
navVars == <<historyDepth>>
upVars == <<uploadRequest>>

(* --------------------------- pure helpers ------------------------------ *)
\* String.prototype.startsWith
StartsWith(s, p) == Len(s) >= Len(p) /\ SubSeq(s, 1, Len(p)) = p

\* a useState initializer that does not read the step parameter
InitialStep_IgnoresParam(stepParam) == "account"

\* useState initializer of currentStep
InitialStep(stepParam) ==
  IF stepParam # Null /\ stepParam \in StepSet THEN stepParam ELSE "account"

\* URL.createObjectURL: a URL never handed out before
CreateObjectURL == created + 1

(* ------------------------------- Init ---------------------------------- *)
Init ==
  /\ mounted \in {"Register", "ProfileCreation"}
  /\ \E p \in UrlParams :
       /\ (mounted = "ProfileCreation") => p = Null
       /\ currentStep = InitialStep(p)
  /\ urlStep = currentStep
  /\ loading = FALSE
  /\ formData = [email |-> "", display_name |-> "", password |-> "",
                 confirmPassword |-> "", selectedTier |-> "", avatar |-> NoFile]
  /\ previewUrl = NoUrl
  /\ isDragging = FALSE
  /\ urls = {}
  /\ created = 0
  /\ pc = "idle"
  /\ inflight = [email |-> "", avatar |-> NoFile]
  /\ effects = <<>>
  /\ registered = {}
  /\ toast = NoToast
  /\ pcFormData = [email |-> "", display_name |-> "", password |-> "",
                   confirmPassword |-> "", avatar |-> NoFile]
  /\ pcPreviewUrl = NoUrl
  /\ pcIsDragging = FALSE
  /\ pcLoading = FALSE
  /\ onSubmitCalls = 0
  /\ subscriptionTiers = [status |-> "pending", data |-> <<>>, failureCount |-> 0]
  /\ user = NoUser
  /\ db = [s \in Services |-> "absent"]
  /\ connectedServices = [status |-> "pending", data |-> {}]
  /\ syncStatuses = [kind |-> "undefined", rows |-> {}]
  /\ location = "/register"
  /\ historyDepth = 0
  /\ uploadRequest = NoUpload

(* ------------------- Register: form and avatar ------------------------- *)
AccountShown == mounted = "Register" /\ currentStep = "account"

HandleChange(name, value) ==
  /\ AccountShown
  /\ formData' = [formData EXCEPT ![name] = value]
  /\ toast' = NoToast
  /\ UNCHANGED <<mounted, currentStep, urlStep, loading, previewUrl, isDragging,
                 urls, created, pc, inflight, effects, registered>>
  /\ UNCHANGED pcVars
  /\ UNCHANGED wizVars
  /\ UNCHANGED navVars
  /\ UNCHANGED upVars

\* handleFileUpload with the size test written as >=
HandleFileUpload_Ge(file, avatar, preview) ==
  IF file.size >= MaxAvatarBytes
    THEN [avatar |-> avatar, previewUrl |-> preview, urls |-> urls,
          created |-> created, toast |-> ToastTooBig]
    ELSE [avatar |-> file, previewUrl |-> CreateObjectURL,
          urls |-> urls \cup {CreateObjectURL}, created |-> created + 1,
          toast |-> NoToast]

\* the state handleFileUpload leaves behind, as [avatar, previewUrl, urls, created, toast]
HandleFileUpload(file, avatar, preview) ==
  IF file.size > MaxAvatarBytes
    THEN [avatar |-> avatar, previewUrl |-> preview, urls |-> urls,
          created |-> created, toast |-> ToastTooBig]
    ELSE [avatar |-> file, previewUrl |-> CreateObjectURL,
          urls |-> urls \cup {CreateObjectURL}, created |-> created + 1,
          toast |-> NoToast]

\* onChange of the file input, which is rendered only while there is no preview
HandleFileChange(file) ==
  /\ AccountShown
  /\ previewUrl = NoUrl
  /\ created < MaxUrls
  /\ LET r == IF file # NoFile
                THEN HandleFileUpload(file, formData.avatar, previewUrl)
                ELSE [avatar |-> formData.avatar, previewUrl |-> previewUrl,
                      urls |-> urls, created |-> created, toast |-> NoToast]
     IN /\ formData' = [formData EXCEPT !.avatar = r.avatar]
        /\ previewUrl' = r.previewUrl
        /\ urls' = r.urls
        /\ created' = r.created
        /\ toast' = r.toast
  /\ UNCHANGED <<mounted, currentStep, urlStep, loading, isDragging,
                 pc, inflight, effects, registered>>
  /\ UNCHANGED pcVars
  /\ UNCHANGED wizVars
  /\ UNCHANGED navVars
  /\ UNCHANGED upVars

HandleDragOver ==
  /\ AccountShown
  /\ isDragging' = TRUE
  /\ toast' = NoToast
  /\ UNCHANGED <<mounted, currentStep, urlStep, loading, formData, previewUrl,
                 urls, created, pc, inflight, effects, registered>>
  /\ UNCHANGED pcVars
  /\ UNCHANGED wizVars
  /\ UNCHANGED navVars
  /\ UNCHANGED upVars

HandleDragLeave ==
  /\ AccountShown
  /\ isDragging' = FALSE
  /\ toast' = NoToast
  /\ UNCHANGED <<mounted, currentStep, urlStep, loading, formData, previewUrl,
                 urls, created, pc, inflight, effects, registered>>
  /\ UNCHANGED pcVars
  /\ UNCHANGED wizVars
  /\ UNCHANGED navVars
  /\ UNCHANGED upVars

\* onDrop of the avatar area, which wraps both the preview and the file input
HandleDrop(file) ==
  /\ AccountShown
  /\ created < MaxUrls
  /\ isDragging' = FALSE
  /\ LET r == IF file # NoFile /\ StartsWith(file.type, ImagePrefix)
                THEN HandleFileUpload(file, formData.avatar, previewUrl)
                ELSE [avatar |-> formData.avatar, previewUrl |-> previewUrl,
                      urls |-> urls, created |-> created, toast |-> ToastNotImage]
     IN /\ formData' = [formData EXCEPT !.avatar = r.avatar]
        /\ previewUrl' = r.previewUrl
        /\ urls' = r.urls
        /\ created' = r.created
        /\ toast' = r.toast
  /\ UNCHANGED <<mounted, currentStep, urlStep, loading,
                 pc, inflight, effects, registered>>
  /\ UNCHANGED pcVars
  /\ UNCHANGED wizVars
  /\ UNCHANGED navVars
  /\ UNCHANGED upVars

\* a removeAvatar that clears the preview and keeps the file
RemoveAvatar_KeepsFile ==
  /\ AccountShown
  /\ previewUrl # NoUrl
  /\ formData' = formData
  /\ urls' = urls \ {previewUrl}
  /\ previewUrl' = NoUrl
  /\ toast' = NoToast
  /\ UNCHANGED <<mounted, currentStep, urlStep, loading, isDragging,
                 created, pc, inflight, effects, registered>>
  /\ UNCHANGED pcVars
  /\ UNCHANGED wizVars
  /\ UNCHANGED navVars
  /\ UNCHANGED upVars

\* onClick of the remove button, which is rendered only while there is a preview
RemoveAvatar ==
  /\ AccountShown
  /\ previewUrl # NoUrl
  /\ formData' = [formData EXCEPT !.avatar = NoFile]
  /\ urls' = urls \ {previewUrl}
  /\ previewUrl' = NoUrl
  /\ toast' = NoToast
  /\ UNCHANGED <<mounted, currentStep, urlStep, loading, isDragging,
                 created, pc, inflight, effects, registered>>
  /\ UNCHANGED pcVars
  /\ UNCHANGED wizVars
  /\ UNCHANGED navVars
  /\ UNCHANGED upVars

(* ------------------- Register: handleRegister -------------------------- *)
\* messages the identity provider's rejection can carry ("" when it has none)
ErrorMessages == {"", "User already registered"}
\* ids supabase.auth.getUser can resolve to
UserIds == {"u1", "u2"}
\* user.id as text
IdText == [u \in UserIds |-> IF u = "u1" THEN <<"u", "1">> ELSE <<"u", "2">>]
\* results of Math.random() as they are interpolated into a string
RandomTokens == {<<"0">>, <<"0", ".", "5">>}

\* s.split(sep): the pieces of s between the occurrences of sep
RECURSIVE Split(_, _)
Split(s, sep) ==
  IF \A i \in 1..Len(s) : s[i] # sep
    THEN <<s>>
    ELSE LET k == CHOOSE i \in 1..Len(s) :
                    s[i] = sep /\ \A j \in 1..(i - 1) : s[j] # sep
         IN  <<SubSeq(s, 1, k - 1)>> \o Split(SubSeq(s, k + 1, Len(s)), sep)

\* an upload path without the folder of the user
AvatarPath_NoFolder(userId, rnd, name) ==
  LET parts   == Split(name, ".")
      fileExt == parts[Len(parts)]
  IN  rnd \o <<".">> \o fileExt

\* fileName of uploadAvatar: `${userId}/${Math.random()}.${fileExt}` with
\* fileExt = name.split(".").pop()
AvatarPath(userId, rnd, name) ==
  LET parts   == Split(name, ".")
      fileExt == parts[Len(parts)]
  IN  IdText[userId] \o <<"/">> \o rnd \o <<".">> \o fileExt

\* storage.foldername(name): the segments of the path but the last
FolderName(name) ==
  LET parts == Split(name, "/")
  IN  SubSeq(parts, 1, Len(parts) - 1)

\* with check of the insert policy on storage.objects, uid being auth.uid()
InsertPolicy(bucket, name, uid) ==
  /\ bucket = "avatars"
  /\ Len(FolderName(name)) >= 1
  /\ uid \in UserIds
  /\ IdText[uid] = FolderName(name)[1]

\* the required attribute of the four inputs: the browser fires no submit
\* event while one of them is empty
RequiredFilled(fd) ==
  fd.display_name # "" /\ fd.email # "" /\ fd.password # "" /\ fd.confirmPassword # ""

\* a state setter of Register does nothing once the component is gone
SetState(old, new) == IF mounted = "Register" THEN new ELSE old

\* a submit button that is not disabled while loading
HandleRegister_NotDisabled ==
  /\ AccountShown
  /\ RequiredFilled(formData)
  /\ IF formData.password # formData.confirmPassword
       THEN /\ toast' = ToastMismatch
            /\ loading' = FALSE
            /\ pc' = pc
            /\ effects' = <<>>
            /\ inflight' = inflight
       ELSE /\ toast' = NoToast
            /\ loading' = TRUE
            /\ pc' = "register"
            /\ effects' = <<"register">>
            /\ inflight' = [email |-> formData.email, avatar |-> formData.avatar]
  /\ UNCHANGED <<mounted, currentStep, urlStep, formData, previewUrl, isDragging,
                 urls, created, registered>>
  /\ UNCHANGED pcVars
  /\ UNCHANGED wizVars
  /\ UNCHANGED navVars
  /\ UNCHANGED upVars

\* handleRegister without the comparison of the two passwords
HandleRegister_NoCheck ==
  /\ AccountShown
  /\ ~loading
  /\ RequiredFilled(formData)
  /\ toast' = NoToast
  /\ loading' = TRUE
  /\ pc' = "register"
  /\ effects' = <<"register">>
  /\ inflight' = [email |-> formData.email, avatar |-> formData.avatar]
  /\ UNCHANGED <<mounted, currentStep, urlStep, formData, previewUrl, isDragging,
                 urls, created, registered>>
  /\ UNCHANGED pcVars
  /\ UNCHANGED wizVars
  /\ UNCHANGED navVars
  /\ UNCHANGED upVars

\* onSubmit of the account form, up to the first await
HandleRegister ==
  /\ AccountShown
  /\ ~loading
  /\ RequiredFilled(formData)
  /\ IF formData.password # formData.confirmPassword
       THEN /\ toast' = ToastMismatch
            /\ loading' = FALSE
            /\ pc' = pc
            /\ effects' = <<>>
            /\ inflight' = inflight
       ELSE /\ toast' = NoToast
            /\ loading' = TRUE
            /\ pc' = "register"
            /\ effects' = <<"register">>
            /\ inflight' = [email |-> formData.email, avatar |-> formData.avatar]
  /\ UNCHANGED <<mounted, currentStep, urlStep, formData, previewUrl, isDragging,
                 urls, created, registered>>
  /\ UNCHANGED pcVars
  /\ UNCHANGED wizVars
  /\ UNCHANGED navVars
  /\ UNCHANGED upVars

\* the tail of handleRegister: setCurrentStep("subscription"), then finally
FinishRegister ==
  /\ currentStep' = SetState(currentStep, "subscription")
  /\ urlStep' = SetState(urlStep, "subscription")
  /\ loading' = SetState(loading, FALSE)
  /\ pc' = "idle"

\* the catch block without the finally block: loading is left set
RegisterRejected_NoFinally(msg) ==
  /\ pc = "register"
  /\ toast' = IF msg # "" THEN msg ELSE ToastRegistration
  /\ pc' = "idle"
  /\ UNCHANGED <<mounted, currentStep, urlStep, loading, formData, previewUrl,
                 isDragging, urls, created, inflight, effects, registered>>
  /\ UNCHANGED pcVars
  /\ UNCHANGED wizVars
  /\ UNCHANGED navVars
  /\ UNCHANGED upVars

\* the rejection is swallowed and handleRegister carries on to getUser
RegisterRejected_Swallowed(msg) ==
  /\ pc = "register"
  /\ toast' = NoToast
  /\ pc' = "getUser"
  /\ effects' = Append(effects, "getUser")
  /\ UNCHANGED <<mounted, currentStep, urlStep, loading, formData, previewUrl,
                 isDragging, urls, created, inflight, registered>>
  /\ UNCHANGED pcVars
  /\ UNCHANGED wizVars
  /\ UNCHANGED navVars
  /\ UNCHANGED upVars

\* register(...) rejects: catch, then finally
RegisterRejected(msg) ==
  /\ pc = "register"
  /\ toast' = IF msg # "" THEN msg ELSE ToastRegistration
  /\ loading' = SetState(loading, FALSE)
  /\ pc' = "idle"
  /\ UNCHANGED <<mounted, currentStep, urlStep, formData, previewUrl, isDragging,
                 urls, created, inflight, effects, registered>>
  /\ UNCHANGED pcVars
  /\ UNCHANGED wizVars
  /\ UNCHANGED navVars
  /\ UNCHANGED upVars

\* register(...) resolves: the account exists, getUser is called
RegisterResolved ==
  /\ pc = "register"
  /\ registered' = registered \cup {inflight.email}
  /\ pc' = "getUser"
  /\ effects' = Append(effects, "getUser")
  /\ toast' = NoToast
  /\ UNCHANGED <<mounted, currentStep, urlStep, loading, formData, previewUrl,
                 isDragging, urls, created, inflight>>
  /\ UNCHANGED pcVars
  /\ UNCHANGED wizVars
  /\ UNCHANGED navVars
  /\ UNCHANGED upVars

\* supabase.auth.getUser() resolves to a user or to none
GetUserResolved(newUser) ==
  /\ pc = "getUser"
  /\ toast' = NoToast
  /\ IF newUser # NoUser /\ inflight.avatar # NoFile
       THEN /\ pc' = "upload"
            /\ effects' = Append(effects, "upload")
            /\ \E rnd \in RandomTokens :
                 uploadRequest' =
                   [bucket |-> "avatars",
                    path   |-> AvatarPath(newUser, rnd, inflight.avatar.name),
                    uid    |-> newUser]
            /\ UNCHANGED <<currentStep, urlStep, loading>>
       ELSE /\ FinishRegister
            /\ effects' = effects
            /\ UNCHANGED upVars
  /\ UNCHANGED <<mounted, formData, previewUrl, isDragging, urls, created,
                 inflight, registered>>
  /\ UNCHANGED pcVars
  /\ UNCHANGED wizVars
  /\ UNCHANGED navVars

\* uploadAvatar without its try/catch: a failed upload reaches the catch
\* block of handleRegister
UploadAvatarReturned_Rethrow(ok) ==
  /\ pc = "upload"
  /\ IF ok
       THEN /\ pc' = "update"
            /\ effects' = Append(effects, "update")
            /\ toast' = NoToast
            /\ UNCHANGED <<currentStep, urlStep, loading>>
       ELSE /\ toast' = ToastRegistration
            /\ loading' = SetState(loading, FALSE)
            /\ pc' = "idle"
            /\ effects' = effects
            /\ UNCHANGED <<currentStep, urlStep>>
  /\ UNCHANGED <<mounted, formData, previewUrl, isDragging, urls, created,
                 inflight, registered>>
  /\ UNCHANGED pcVars
  /\ UNCHANGED wizVars
  /\ UNCHANGED navVars
  /\ uploadRequest' = NoUpload

\* uploadAvatar returns: the public URL, or null after a caught failure
UploadAvatarReturned(ok) ==
  /\ pc = "upload"
  /\ toast' = NoToast
  /\ IF ok
       THEN /\ pc' = "update"
            /\ effects' = Append(effects, "update")
            /\ UNCHANGED <<currentStep, urlStep, loading>>
       ELSE /\ FinishRegister
            /\ effects' = effects
  /\ UNCHANGED <<mounted, formData, previewUrl, isDragging, urls, created,
                 inflight, registered>>
  /\ UNCHANGED pcVars
  /\ UNCHANGED wizVars
  /\ UNCHANGED navVars
  /\ uploadRequest' = NoUpload

\* updateError thrown instead of logged
ProfileUpdateReturned_Throws(updateError) ==
  /\ pc = "update"
  /\ IF updateError
       THEN /\ toast' = ToastRegistration
            /\ loading' = SetState(loading, FALSE)
            /\ pc' = "idle"
            /\ UNCHANGED <<currentStep, urlStep>>
       ELSE /\ toast' = NoToast
            /\ FinishRegister
  /\ UNCHANGED <<mounted, formData, previewUrl, isDragging, urls, created,
                 inflight, effects, registered>>
  /\ UNCHANGED pcVars
  /\ UNCHANGED wizVars
  /\ UNCHANGED navVars
  /\ UNCHANGED upVars

\* the profiles update returns, with or without updateError
ProfileUpdateReturned(updateError) ==
  /\ pc = "update"
  /\ toast' = NoToast
  /\ FinishRegister
  /\ UNCHANGED <<mounted, formData, previewUrl, isDragging, urls, created,
                 inflight, effects, registered>>
  /\ UNCHANGED pcVars
  /\ UNCHANGED wizVars
  /\ UNCHANGED navVars
  /\ UNCHANGED upVars

(* ------------------- Register: navigation ------------------------------ *)
\* the back handler with its second if reading the step the first one set
Back_Fallthrough ==
  /\ mounted = "Register"
  /\ currentStep # "account"
  /\ LET s1 == IF currentStep = "services" THEN "subscription" ELSE currentStep
         s2 == IF s1 = "subscription" THEN "account" ELSE s1
     IN /\ currentStep' = s2
        /\ urlStep' = s2
  /\ toast' = NoToast
  /\ UNCHANGED <<mounted, loading, formData, previewUrl, isDragging, urls, created,
                 pc, inflight, effects, registered>>
  /\ UNCHANGED pcVars
  /\ UNCHANGED wizVars
  /\ UNCHANGED navVars
  /\ UNCHANGED upVars

\* a back button that is disabled while the status rows show a sync
Back_NotWhileSyncing ==
  /\ mounted = "Register"
  /\ currentStep # "account"
  /\ ~(syncStatuses.kind = "rows"
        /\ \E status \in syncStatuses.rows : status.last_library_sync = Null)
  /\ LET s1 == IF currentStep = "services" THEN "subscription" ELSE currentStep
         s2 == IF currentStep = "subscription" THEN "account" ELSE s1
     IN /\ currentStep' = s2
        /\ urlStep' = s2
  /\ toast' = NoToast
  /\ UNCHANGED <<mounted, loading, formData, previewUrl, isDragging, urls, created,
                 pc, inflight, effects, registered>>
  /\ UNCHANGED pcVars
  /\ UNCHANGED wizVars
  /\ UNCHANGED navVars
  /\ UNCHANGED upVars

\* onClick of the back button, rendered when currentStep is not "account"
Back ==
  /\ mounted = "Register"
  /\ currentStep # "account"
  /\ LET s1 == IF currentStep = "services" THEN "subscription" ELSE currentStep
         s2 == IF currentStep = "subscription" THEN "account" ELSE s1
     IN /\ currentStep' = s2
        /\ urlStep' = s2
  /\ toast' = NoToast
  /\ UNCHANGED <<mounted, loading, formData, previewUrl, isDragging, urls, created,
                 pc, inflight, effects, registered>>
  /\ UNCHANGED pcVars
  /\ UNCHANGED wizVars
  /\ UNCHANGED navVars
  /\ UNCHANGED upVars

\* the component leaves the page; neither component has a cleanup effect
Unmount ==
  /\ mounted # "none"
  /\ mounted' = "none"
  /\ toast' = NoToast
  /\ UNCHANGED regVars
  /\ UNCHANGED <<urls, created>>
  /\ UNCHANGED pcVars
  /\ UNCHANGED wizVars
  /\ UNCHANGED navVars
  /\ UNCHANGED upVars

(* ------------------------- ProfileCreation ----------------------------- *)
PcShown == mounted = "ProfileCreation"

PcHandleChange(name, value) ==
  /\ PcShown
  /\ pcFormData' = [pcFormData EXCEPT ![name] = value]
  /\ toast' = NoToast
  /\ UNCHANGED <<mounted, urls, created, pcPreviewUrl, pcIsDragging, pcLoading,
                 onSubmitCalls>>
  /\ UNCHANGED regVars
  /\ UNCHANGED wizVars
  /\ UNCHANGED navVars
  /\ UNCHANGED upVars

\* the state ProfileCreation's handleFileUpload leaves behind
PcHandleFileUpload(file, avatar, preview) ==
  IF file.size > MaxAvatarBytes
    THEN [avatar |-> avatar, previewUrl |-> preview, urls |-> urls,
          created |-> created, toast |-> ToastTooBig]
    ELSE [avatar |-> file, previewUrl |-> CreateObjectURL,
          urls |-> urls \cup {CreateObjectURL}, created |-> created + 1,
          toast |-> NoToast]

\* onChange of either file input, rendered only while there is no preview
PcHandleFileChange(file) ==
  /\ PcShown
  /\ pcPreviewUrl = NoUrl
  /\ created < MaxUrls
  /\ LET r == IF file # NoFile
                THEN PcHandleFileUpload(file, pcFormData.avatar, pcPreviewUrl)
                ELSE [avatar |-> pcFormData.avatar, previewUrl |-> pcPreviewUrl,
                      urls |-> urls, created |-> created, toast |-> NoToast]
     IN /\ pcFormData' = [pcFormData EXCEPT !.avatar = r.avatar]
        /\ pcPreviewUrl' = r.previewUrl
        /\ urls' = r.urls
        /\ created' = r.created
        /\ toast' = r.toast
  /\ UNCHANGED <<mounted, pcIsDragging, pcLoading, onSubmitCalls>>
  /\ UNCHANGED regVars
  /\ UNCHANGED wizVars
  /\ UNCHANGED navVars
  /\ UNCHANGED upVars

PcHandleDragOver ==
  /\ PcShown
  /\ pcIsDragging' = TRUE
  /\ toast' = NoToast
  /\ UNCHANGED <<mounted, urls, created, pcFormData, pcPreviewUrl, pcLoading,
                 onSubmitCalls>>
  /\ UNCHANGED regVars
  /\ UNCHANGED wizVars
  /\ UNCHANGED navVars
  /\ UNCHANGED upVars

PcHandleDragLeave ==
  /\ PcShown
  /\ pcIsDragging' = FALSE
  /\ toast' = NoToast
  /\ UNCHANGED <<mounted, urls, created, pcFormData, pcPreviewUrl, pcLoading,
                 onSubmitCalls>>
  /\ UNCHANGED regVars
  /\ UNCHANGED wizVars
  /\ UNCHANGED navVars
  /\ UNCHANGED upVars

PcHandleDrop(file) ==
  /\ PcShown
  /\ created < MaxUrls
  /\ pcIsDragging' = FALSE
  /\ LET r == IF file # NoFile /\ StartsWith(file.type, ImagePrefix)
                THEN PcHandleFileUpload(file, pcFormData.avatar, pcPreviewUrl)
                ELSE [avatar |-> pcFormData.avatar, previewUrl |-> pcPreviewUrl,
                      urls |-> urls, created |-> created, toast |-> ToastNotImage]
     IN /\ pcFormData' = [pcFormData EXCEPT !.avatar = r.avatar]
        /\ pcPreviewUrl' = r.previewUrl
        /\ urls' = r.urls
        /\ created' = r.created
        /\ toast' = r.toast
  /\ UNCHANGED <<mounted, pcLoading, onSubmitCalls>>
  /\ UNCHANGED regVars
  /\ UNCHANGED wizVars
  /\ UNCHANGED navVars
  /\ UNCHANGED upVars

PcRemoveAvatar ==
  /\ PcShown
  /\ pcPreviewUrl # NoUrl
  /\ pcFormData' = [pcFormData EXCEPT !.avatar = NoFile]
  /\ urls' = urls \ {pcPreviewUrl}
  /\ pcPreviewUrl' = NoUrl
  /\ toast' = NoToast
  /\ UNCHANGED <<mounted, created, pcIsDragging, pcLoading, onSubmitCalls>>
  /\ UNCHANGED regVars
  /\ UNCHANGED wizVars
  /\ UNCHANGED navVars
  /\ UNCHANGED upVars

\* onSubmit of either form; the submit button is disabled while loading
PcHandleSubmit ==
  /\ PcShown
  /\ ~pcLoading
  /\ RequiredFilled(pcFormData)
  /\ onSubmitCalls < MaxSubmits
  /\ IF pcFormData.password # pcFormData.confirmPassword
       THEN /\ toast' = ToastMismatch
            /\ onSubmitCalls' = onSubmitCalls
       ELSE /\ toast' = NoToast
            /\ onSubmitCalls' = onSubmitCalls + 1
  /\ UNCHANGED <<mounted, urls, created, pcFormData, pcPreviewUrl, pcIsDragging,
                 pcLoading>>
  /\ UNCHANGED regVars
  /\ UNCHANGED wizVars
  /\ UNCHANGED navVars
  /\ UNCHANGED upVars

\* the parent re-renders ProfileCreation with another value of the loading prop
PcSetLoading(b) ==
  /\ PcShown
  /\ pcLoading # b
  /\ pcLoading' = b
  /\ toast' = NoToast
  /\ UNCHANGED <<mounted, urls, created, pcFormData, pcPreviewUrl, pcIsDragging,
                 onSubmitCalls>>
  /\ UNCHANGED regVars
  /\ UNCHANGED wizVars
  /\ UNCHANGED navVars
  /\ UNCHANGED upVars

(* ------------------- Register: tiers and steps ------------------------- *)
\* what .order("price") makes of the table: its rows by ascending price
OrderByPrice(rows) ==
  { q \in [1..Cardinality(rows) -> rows] :
      /\ \A i, j \in 1..Cardinality(rows) : i # j => q[i] # q[j]
      /\ \A i, j \in 1..Cardinality(rows) : i < j => q[i].price <= q[j].price }

\* the subscription-tiers query resolves
FetchTiers ==
  /\ mounted = "Register"
  /\ subscriptionTiers.status = "pending"
  /\ \E q \in OrderByPrice(TierRows) :
       subscriptionTiers' = [status |-> "success", data |-> q, failureCount |-> 0]
  /\ toast' = NoToast
  /\ UNCHANGED <<mounted, urls, created, user, db, connectedServices, syncStatuses,
                 location>>
  /\ UNCHANGED regVars
  /\ UNCHANGED pcVars
  /\ UNCHANGED navVars
  /\ UNCHANGED upVars

\* retry option of the query client: failed attempts that are run again
Retry == 1

\* an attempt of the subscription-tiers query fails: queryFn throws the
\* error, and the query client runs it again or gives up with no data
FetchTiersFailed ==
  /\ mounted = "Register"
  /\ subscriptionTiers.status = "pending"
  /\ subscriptionTiers' =
       [status       |-> IF subscriptionTiers.failureCount < Retry
                           THEN "pending" ELSE "error",
        data         |-> <<>>,
        failureCount |-> subscriptionTiers.failureCount + 1]
  /\ toast' = NoToast
  /\ UNCHANGED <<mounted, urls, created, user, db, connectedServices, syncStatuses,
                 location>>
  /\ UNCHANGED regVars
  /\ UNCHANGED pcVars
  /\ UNCHANGED navVars
  /\ UNCHANGED upVars

\* every order in which a response can deliver the rows of the table
AnyOrder(rows) ==
  { q \in [1..Cardinality(rows) -> rows] :
      \A i, j \in 1..Cardinality(rows) : i # j => q[i] # q[j] }

\* the subscription-tiers query resolves with the rows as the client
\* delivered them: queryFn returns data untouched
TiersReturned(data) ==
  /\ mounted = "Register"
  /\ subscriptionTiers.status = "pending"
  /\ subscriptionTiers' = [status |-> "success", data |-> data, failureCount |-> 0]
  /\ toast' = NoToast
  /\ UNCHANGED <<mounted, urls, created, user, db, connectedServices, syncStatuses,
                 location>>
  /\ UNCHANGED regVars
  /\ UNCHANGED pcVars
  /\ UNCHANGED navVars
  /\ UNCHANGED upVars

\* a tier list that sorts the cards by price before rendering them
RenderTiers_SortedByPrice(data) ==
  LET sorted == CHOOSE q \in OrderByPrice({data[i] : i \in 1..Len(data)}) : TRUE
  IN  [i \in 1..Len(data) |-> [key |-> sorted[i].id, price |-> sorted[i].price]]

\* subscriptionTiers?.map(tier => <Card key={tier.id}> ... tier.price):
\* one card per row, in the order of the rows
RenderTiers(data) ==
  [i \in 1..Len(data) |-> [key |-> data[i].id, price |-> data[i].price]]

\* ids of the tier cards rendered in the subscription step
RenderedTierIds ==
  {subscriptionTiers.data[i].id : i \in 1..Len(subscriptionTiers.data)}

\* onClick of a tier card
HandleSelectTier(tierId) ==
  /\ mounted = "Register"
  /\ currentStep = "subscription"
  /\ tierId \in RenderedTierIds
  /\ formData' = [formData EXCEPT !.selectedTier = tierId]
  /\ toast' = NoToast
  /\ UNCHANGED <<mounted, currentStep, urlStep, loading, previewUrl, isDragging,
                 urls, created, pc, inflight, effects, registered>>
  /\ UNCHANGED pcVars
  /\ UNCHANGED wizVars
  /\ UNCHANGED navVars
  /\ UNCHANGED upVars

\* a continue button without the disabled attribute
ContinueDisabled_Never == FALSE

\* disabled attribute of the subscription step's continue button
ContinueDisabled == formData.selectedTier = ""

\* onClick of the subscription step's continue button
Continue ==
  /\ mounted = "Register"
  /\ currentStep = "subscription"
  /\ ~ContinueDisabled
  /\ currentStep' = "services"
  /\ urlStep' = "services"
  /\ toast' = NoToast
  /\ UNCHANGED <<mounted, loading, formData, previewUrl, isDragging, urls, created,
                 pc, inflight, effects, registered>>
  /\ UNCHANGED pcVars
  /\ UNCHANGED wizVars
  /\ UNCHANGED navVars
  /\ UNCHANGED upVars

(* ------------------- Register: services and sync ----------------------- *)
\* the auth context learns the signed-in user
SignedIn(u) ==
  /\ mounted = "Register"
  /\ user = NoUser
  /\ user' = u
  /\ syncStatuses' = [kind |-> "undefined", rows |-> {}]
  /\ toast' = NoToast
  /\ UNCHANGED <<mounted, urls, created, subscriptionTiers, db, connectedServices,
                 location>>
  /\ UNCHANGED regVars
  /\ UNCHANGED pcVars
  /\ UNCHANGED navVars
  /\ UNCHANGED upVars

\* a service is connected: its row appears with a null last_library_sync
ConnectService(s) ==
  /\ mounted = "Register"
  /\ currentStep = "services"
  /\ user # NoUser
  /\ db[s] = "absent"
  /\ db' = [db EXCEPT ![s] = Null]
  /\ toast' = NoToast
  /\ UNCHANGED <<mounted, urls, created, subscriptionTiers, user, connectedServices,
                 syncStatuses, location>>
  /\ UNCHANGED regVars
  /\ UNCHANGED pcVars
  /\ UNCHANGED navVars
  /\ UNCHANGED upVars

\* the backend finishes the library import of a connected service
SyncCompleted(s) ==
  /\ db[s] = Null
  /\ db' = [db EXCEPT ![s] = "ts"]
  /\ toast' = NoToast
  /\ UNCHANGED <<mounted, urls, created, subscriptionTiers, user, connectedServices,
                 syncStatuses, location>>
  /\ UNCHANGED regVars
  /\ UNCHANGED pcVars
  /\ UNCHANGED navVars
  /\ UNCHANGED upVars

\* useConnectedServices (re)fetches the services that have a row
FetchConnectedServices ==
  /\ mounted = "Register"
  /\ user # NoUser
  /\ connectedServices' =
       [status |-> "success", data |-> {s \in Services : db[s] # "absent"}]
  /\ connectedServices' # connectedServices
  /\ toast' = NoToast
  /\ UNCHANGED <<mounted, urls, created, subscriptionTiers, user, db, syncStatuses,
                 location>>
  /\ UNCHANGED regVars
  /\ UNCHANGED pcVars
  /\ UNCHANGED navVars
  /\ UNCHANGED upVars

\* what the queryFn of syncStatuses returns: the rows, or null when the
\* select fails (data is null and the error is not looked at)
SyncQueryFn(ok) ==
  IF ok
    THEN [kind |-> "rows",
          rows |-> {[service |-> s, last_library_sync |-> db[s]] :
                      s \in {t \in Services : db[t] # "absent"}}]
    ELSE [kind |-> "null", rows |-> {}]

\* enabled option of the syncStatuses query
SyncQueryEnabled == user # NoUser

\* a syncStatuses query without refetchInterval
RefetchIntervalOn_Never == FALSE

\* refetchInterval option of the syncStatuses query: 2000 or false
RefetchIntervalOn == Cardinality(connectedServices.data) # 0

\* the refetch timer of the syncStatuses query is running
PollingActive == mounted = "Register" /\ SyncQueryEnabled /\ RefetchIntervalOn

\* first fetch of the syncStatuses query
FetchSyncStatuses(ok) ==
  /\ mounted = "Register"
  /\ SyncQueryEnabled
  /\ syncStatuses.kind = "undefined"
  /\ syncStatuses' = SyncQueryFn(ok)
  /\ toast' = NoToast
  /\ UNCHANGED <<mounted, urls, created, subscriptionTiers, user, db,
                 connectedServices, location>>
  /\ UNCHANGED regVars
  /\ UNCHANGED pcVars
  /\ UNCHANGED navVars
  /\ UNCHANGED upVars

\* a tick of the refetch interval
PollSyncStatuses(ok) ==
  /\ mounted = "Register"
  /\ SyncQueryEnabled
  /\ RefetchIntervalOn
  /\ syncStatuses.kind # "undefined"
  /\ syncStatuses' = SyncQueryFn(ok)
  /\ syncStatuses' # syncStatuses
  /\ toast' = NoToast
  /\ UNCHANGED <<mounted, urls, created, subscriptionTiers, user, db,
                 connectedServices, location>>
  /\ UNCHANGED regVars
  /\ UNCHANGED pcVars
  /\ UNCHANGED navVars
  /\ UNCHANGED upVars

\* isAnySyncing with the test written as !== undefined: a timestamp counts
\* as syncing too
IsAnySyncing_NotUndefined ==
  /\ syncStatuses.kind = "rows"
  /\ \E status \in syncStatuses.rows : status.last_library_sync \in {Null, "ts"}

\* isAnySyncing: syncStatuses?.some(...), undefined (falsy) without rows
IsAnySyncing ==
  /\ syncStatuses.kind = "rows"
  /\ \E status \in syncStatuses.rows : status.last_library_sync = Null

\* disabled attribute of the services step's finish button
FinishDisabled == Cardinality(connectedServices.data) = 0 \/ IsAnySyncing

\* onClick of the finish button
HandleFinish ==
  /\ mounted = "Register"
  /\ currentStep = "services"
  /\ ~FinishDisabled
  /\ location' = "/home"
  /\ mounted' = "none"
  /\ toast' = NoToast
  /\ UNCHANGED <<urls, created, subscriptionTiers, user, db, connectedServices,
                 syncStatuses>>
  /\ UNCHANGED regVars
  /\ UNCHANGED pcVars
  /\ UNCHANGED navVars
  /\ UNCHANGED upVars

(* ------------------- Register: location -------------------------------- *)
\* the effect that follows a change of currentStep or of searchParams:
\* newParams.set("step", currentStep), navigate with replace
UrlSyncEffect(step) == step

\* something outside the wizard navigates to ?step=s while Register is
\* mounted: searchParams changes, the effect above runs
ExternalNavigate(s) ==
  /\ mounted = "Register"
  /\ historyDepth < MaxNavs
  /\ historyDepth' = historyDepth + 1
  /\ urlStep' = UrlSyncEffect(currentStep)
  /\ toast' = NoToast
  /\ UNCHANGED <<mounted, currentStep, loading, formData, previewUrl, isDragging,
                 urls, created, pc, inflight, effects, registered>>
  /\ UNCHANGED pcVars
  /\ UNCHANGED wizVars
  /\ UNCHANGED upVars

\* the page is reloaded at its current location: Register is constructed
\* anew, the document's object URLs and in-memory query results are gone
Reload ==
  /\ mounted = "Register"
  /\ currentStep' = InitialStep(urlStep)
  /\ urlStep' = UrlSyncEffect(InitialStep(urlStep))
  /\ loading' = FALSE
  /\ formData' = [email |-> "", display_name |-> "", password |-> "",
                  confirmPassword |-> "", selectedTier |-> "", avatar |-> NoFile]
  /\ previewUrl' = NoUrl
  /\ isDragging' = FALSE
  /\ urls' = {}
  /\ pc' = "idle"
  /\ inflight' = [email |-> "", avatar |-> NoFile]
  /\ effects' = <<>>
  /\ uploadRequest' = NoUpload
  /\ toast' = NoToast
  /\ subscriptionTiers' = [status |-> "pending", data |-> <<>>, failureCount |-> 0]
  /\ user' = NoUser
  /\ connectedServices' = [status |-> "pending", data |-> {}]
  /\ syncStatuses' = [kind |-> "undefined", rows |-> {}]
  /\ UNCHANGED <<mounted, created, registered, db, location>>
  /\ UNCHANGED pcVars
  /\ UNCHANGED navVars

Next ==
  \/ \E n \in FieldNames : \E v \in FieldValues[n] : HandleChange(n, v)
  \/ \E f \in Files \cup {NoFile} : HandleFileChange(f)
  \/ HandleDragOver
  \/ HandleDragLeave
  \/ \E f \in Files \cup {NoFile} : HandleDrop(f)
  \/ RemoveAvatar
  \/ HandleRegister
  \/ \E m \in ErrorMessages : RegisterRejected(m)
  \/ RegisterResolved
  \/ \E u \in UserIds \cup {NoUser} : GetUserResolved(u)
  \/ \E ok \in BOOLEAN : UploadAvatarReturned(ok)
  \/ \E e \in BOOLEAN : ProfileUpdateReturned(e)
  \/ Back
  \/ Unmount
  \/ \E n \in FieldNames : \E v \in FieldValues[n] : PcHandleChange(n, v)
  \/ \E f \in Files \cup {NoFile} : PcHandleFileChange(f)
  \/ PcHandleDragOver
  \/ PcHandleDragLeave
  \/ \E f \in Files \cup {NoFile} : PcHandleDrop(f)
  \/ PcRemoveAvatar
  \/ PcHandleSubmit
  \/ \E b \in BOOLEAN : PcSetLoading(b)

Spec == Init /\ [][Next]_vars

\* the steps after the account step: tiers, services, sync status, finish
NextWizard ==
  \/ FetchTiers
  \/ FetchTiersFailed
  \/ \E t \in {r.id : r \in TierRows} : HandleSelectTier(t)
  \/ Continue
  \/ Back
  \/ \E u \in UserIds : SignedIn(u)
  \/ \E s \in Services : ConnectService(s)
  \/ \E s \in Services : SyncCompleted(s)
  \/ FetchConnectedServices
  \/ \E ok \in BOOLEAN : FetchSyncStatuses(ok)
  \/ \E ok \in BOOLEAN : PollSyncStatuses(ok)
  \/ HandleFinish
  \/ Unmount

SpecWizard == Init /\ [][NextWizard]_vars

\* the three steps and the location: account form, handleRegister, tier
\* selection, back and continue, navigation from outside, reload
NextSteps ==
  \/ \E n \in FieldNames : \E v \in FieldValues[n] : HandleChange(n, v)
  \/ HandleRegister
  \/ \E m \in ErrorMessages : RegisterRejected(m)
  \/ RegisterResolved
  \/ \E u \in UserIds \cup {NoUser} : GetUserResolved(u)
  \/ FetchTiers
  \/ \E t \in {r.id : r \in TierRows} : HandleSelectTier(t)
  \/ Continue
  \/ Back
  \/ \E st \in StepSet : ExternalNavigate(st)
  \/ Reload
  \/ Unmount

SpecSteps == Init /\ [][NextSteps]_vars

\* the steps of the wizard over a store client that may deliver the tier
\* rows in any order
NextStore ==
  \/ \E n \in FieldNames : \E v \in FieldValues[n] : HandleChange(n, v)
  \/ HandleRegister
  \/ \E m \in ErrorMessages : RegisterRejected(m)
  \/ RegisterResolved
  \/ \E u \in UserIds \cup {NoUser} : GetUserResolved(u)
  \/ \E q \in AnyOrder(TierRows) : TiersReturned(q)
  \/ \E t \in {r.id : r \in TierRows} : HandleSelectTier(t)
  \/ Continue
  \/ Back
  \/ \E st \in StepSet : ExternalNavigate(st)
  \/ Reload
  \/ Unmount

SpecStore == Init /\ [][NextStore]_vars

\* SpecWizard with the queries' scheduling: useConnectedServices refetches
\* when the rows changed, the enabled syncStatuses query runs its first
\* fetch, and the refetch interval keeps ticking until a fetch succeeds
SpecWizardFair ==
  /\ SpecWizard
  /\ WF_vars(FetchConnectedServices)
  /\ WF_vars(\E ok \in BOOLEAN : FetchSyncStatuses(ok))
  /\ WF_vars(PollSyncStatuses(TRUE))

(* ------------------------------ claims --------------------------------- *)
Pipeline == <<"register", "getUser", "upload", "update">>
IsPrefix(a, b) == Len(a) <= Len(b) /\ a = SubSeq(b, 1, Len(a))
IsImage(f) == StartsWith(f.type, ImagePrefix)

\* C1: a step-1 submission whose password differs from confirmPassword
\* never calls the identity provider's register (Register.handleRegister)
\* nor onSubmit (ProfileCreation.handleSubmit), and currentStep stays
\* "account".
C1_MismatchNeverRegisters ==
  [][ /\ (HandleRegister /\ formData.password # formData.confirmPassword)
           => /\ pc' = "idle"
              /\ effects' = <<>>
              /\ registered' = registered
              /\ currentStep' = "account"
      /\ (PcHandleSubmit /\ pcFormData.password # pcFormData.confirmPassword)
           => onSubmitCalls' = onSubmitCalls ]_vars

C1_Witness ==
  /\ mounted = "Register"
  /\ toast = ToastMismatch
  /\ formData.password # formData.confirmPassword
  /\ currentStep = "account"
  /\ effects = <<>>

\* C2: a handleRegister whose register call resolved ends, whatever
\* getUser, the upload and the profile update return, with currentStep
\* "subscription".
C2_ResolvedRegisterAdvances ==
  [][ (mounted = "Register" /\ pc \in {"getUser", "upload", "update"} /\ pc' = "idle")
        => (currentStep = "account" /\ currentStep' = "subscription") ]_vars

C2_Witness ==
  /\ mounted = "Register"
  /\ pc = "idle"
  /\ effects = <<"register", "getUser">>
  /\ inflight.avatar # NoFile
  /\ currentStep = "subscription"

\* C3: when register rejects, an error toast is shown, currentStep stays
\* "account", formData is unchanged and loading is false again, so the form
\* can be submitted again; and whenever no handleRegister is running,
\* loading is false.
C3_RejectionReturnsToAccount ==
  /\ [][ \A m \in ErrorMessages :
           (RegisterRejected(m) /\ mounted = "Register")
             => /\ toast' # NoToast
                /\ currentStep = "account" /\ currentStep' = "account"
                /\ formData' = formData
                /\ ~loading' ]_vars
  /\ []((mounted = "Register" /\ pc = "idle") => ~loading)
  /\ []((AccountShown /\ pc = "idle" /\ RequiredFilled(formData)) => ENABLED HandleRegister)

C3_Witness ==
  /\ mounted = "Register"
  /\ pc = "idle"
  /\ effects = <<"register">>
  /\ toast = ToastRegistration
  /\ currentStep = "account"
  /\ ~loading

\* C4: when the avatar upload fails, or the profile update returns an
\* error, after a successful register, the account stays registered, no
\* error toast is shown and currentStep goes from "account" to
\* "subscription".
C4_AvatarFailureDoesNotBlock ==
  [][ ((UploadAvatarReturned(FALSE) \/ ProfileUpdateReturned(TRUE)) /\ mounted = "Register")
        => /\ inflight.email \in registered
           /\ registered' = registered
           /\ toast' = NoToast
           /\ currentStep = "account" /\ currentStep' = "subscription" ]_vars

C4_Witness ==
  /\ mounted = "Register"
  /\ pc = "idle"
  /\ effects = <<"register", "getUser", "upload">>
  /\ currentStep = "subscription"
  /\ registered # {}
  /\ toast = NoToast

\* C5: the collaborator calls of a submission happen in the order register,
\* getUser, upload, update: the upload starts only once register has
\* resolved, the update only once the upload returned a URL, and after a
\* rejected register nothing more is called for that submission.
C5_SideEffectOrder ==
  /\ [](IsPrefix(effects, Pipeline))
  /\ []((pc \in {"upload", "update"}) =>
          (inflight.email \in registered /\ inflight.avatar # NoFile))
  /\ [][ /\ (effects' # effects /\ effects' # <<>> /\ effects'[Len(effects')] = "upload")
              => (pc = "getUser" /\ inflight.email \in registered)
         /\ (effects' # effects /\ effects' # <<>> /\ effects'[Len(effects')] = "update")
              => UploadAvatarReturned(TRUE)
         /\ (\E m \in ErrorMessages : RegisterRejected(m))
              => (pc' = "idle" /\ effects' = <<"register">>)
         /\ (effects' # effects) => (pc # "idle" \/ HandleRegister) ]_vars

C5_Witness ==
  /\ pc = "idle"
  /\ effects = Pipeline
  /\ registered # {}

\* C6: a picked or dropped file larger than 2 * 1024 * 1024 bytes is
\* rejected with an error toast and leaves formData.avatar and previewUrl
\* as they were; a picked file of at most that size becomes formData.avatar
\* (in Register and in ProfileCreation).
C6_SizeLimit ==
  [][ \A f \in Files :
        /\ (f.size > MaxAvatarBytes /\ (HandleFileChange(f) \/ HandleDrop(f)))
             => /\ toast' # NoToast
                /\ formData'.avatar = formData.avatar
                /\ previewUrl' = previewUrl
        /\ (f.size <= MaxAvatarBytes /\ HandleFileChange(f))
             => (formData'.avatar = f /\ previewUrl' # NoUrl /\ toast' = NoToast)
        /\ (f.size > MaxAvatarBytes /\ (PcHandleFileChange(f) \/ PcHandleDrop(f)))
             => /\ toast' # NoToast
                /\ pcFormData'.avatar = pcFormData.avatar
                /\ pcPreviewUrl' = pcPreviewUrl
        /\ (f.size <= MaxAvatarBytes /\ PcHandleFileChange(f))
             => (pcFormData'.avatar = f /\ pcPreviewUrl' # NoUrl /\ toast' = NoToast) ]_vars

C6_Witness ==
  /\ mounted = "Register"
  /\ toast = ToastTooBig
  /\ formData.avatar # NoFile
  /\ formData.avatar.size = MaxAvatarBytes
  /\ previewUrl # NoUrl

\* C7: on the file picker and on drag-and-drop, a file whose type is not an
\* image is rejected with an error toast and changes neither
\* formData.avatar nor previewUrl.
C7_NonImageRejected ==
  [][ \A f \in Files :
        (~IsImage(f) /\ (HandleFileChange(f) \/ HandleDrop(f)))
          => /\ toast' # NoToast
             /\ formData'.avatar = formData.avatar
             /\ previewUrl' = previewUrl ]_vars

\* C8: no object URL other than the preview currently shown is left
\* un-revoked, and none at all once the component is gone.
C8_NoPreviewLeak ==
  /\ (mounted = "Register") => (urls \subseteq {previewUrl})
  /\ (mounted = "ProfileCreation") => (urls \subseteq {pcPreviewUrl})
  /\ (mounted = "none") => (urls = {})

\* C9: the continue button of the subscription step is disabled while
\* selectedTier is empty and enabled right after handleSelectTier with an id
\* of the fetched list; currentStep never goes from "subscription" to
\* "services" with an empty selectedTier.
C9_ContinueNeedsTier ==
  /\ []((formData.selectedTier = "") => (ContinueDisabled /\ ~ENABLED Continue))
  /\ [][ /\ (\A t \in {r.id : r \in TierRows} :
               HandleSelectTier(t) => (formData'.selectedTier = t /\ ~ContinueDisabled'))
         /\ (currentStep = "subscription" /\ currentStep' = "services")
              => (formData.selectedTier # "" /\ formData'.selectedTier # "") ]_vars

C9_Witness ==
  /\ mounted = "Register"
  /\ currentStep = "services"
  /\ formData.selectedTier \in RenderedTierIds

\* C10: the finish button is disabled when no service is connected and when
\* a connected service has a null last_library_sync, also while the
\* syncStatuses query has no data yet; handleFinish never runs while a
\* connected service is mid-sync.
C10_FinishGated ==
  /\ (Cardinality(connectedServices.data) = 0) => FinishDisabled
  /\ (\E s \in connectedServices.data : db[s] = Null) => FinishDisabled

\* every service that has a row has a timestamp, and there is such a service
StoreAllSynced ==
  /\ \E s \in Services : db[s] # "absent"
  /\ \A s \in Services : db[s] # Null

StepIndex(st) == CHOOSE i \in 1..Len(Steps) : Steps[i] = st

\* C12: every change of currentStep moves one position forward or one
\* position backward in account < subscription < services; no action moves
\* it by two.
C12_OneStepAtATime ==
  [][ (currentStep' # currentStep)
        => (StepIndex(currentStep') - StepIndex(currentStep)) \in {1, -1} ]_vars

C12_Witness ==
  /\ mounted = "Register"
  /\ currentStep = "account"
  /\ registered # {}
  /\ pc = "idle"
  /\ formData.selectedTier # ""

\* C13 as stated: back is enabled whenever currentStep is subscription or
\* services, and it provides services -> account, subscription -> account
\* and services -> subscription.
C13_BackProvidesThree ==
  /\ (mounted = "Register" /\ currentStep \in {"subscription", "services"})
       => ENABLED Back
  /\ (mounted = "Register" /\ currentStep = "services")
       => /\ ENABLED (Back /\ currentStep' = "subscription")
          /\ ENABLED (Back /\ currentStep' = "account")
  /\ (mounted = "Register" /\ currentStep = "subscription")
       => ENABLED (Back /\ currentStep' = "account")

\* C13 as amended: back is enabled whenever currentStep is subscription or
\* services, whatever selectedTier, the connected services and the sync
\* status are, and it goes from services to subscription and from
\* subscription to account; services -> account takes two back actions.
C13_BackOneStep ==
  /\ []((mounted = "Register" /\ currentStep \in {"subscription", "services"})
          => ENABLED Back)
  /\ []((mounted = "Register" /\ currentStep = "services")
          => (ENABLED (Back /\ currentStep' = "subscription")
              /\ ~ENABLED (Back /\ currentStep' = "account")))
  /\ []((mounted = "Register" /\ currentStep = "subscription")
          => ENABLED (Back /\ currentStep' = "account"))

C13_Witness ==
  /\ mounted = "Register"
  /\ currentStep = "account"
  /\ formData.selectedTier # ""
  /\ connectedServices.data # {}
  /\ IsAnySyncing

\* C14: while Register is mounted the step parameter of the location equals
\* currentStep, and a reload starts Register at the same step without a
\* register call and without a tier selection.
C14_ReloadRoundTrip ==
  /\ []((mounted = "Register") => (urlStep = currentStep))
  /\ [][ Reload => /\ currentStep' = currentStep
                   /\ urlStep' = currentStep
                   /\ pc' = "idle"
                   /\ effects' = <<>>
                   /\ registered' = registered
                   /\ formData'.selectedTier = "" ]_vars

C14_Witness ==
  /\ mounted = "Register"
  /\ currentStep = "services"
  /\ urlStep = "services"
  /\ registered # {}
  /\ formData.selectedTier = ""
  /\ effects = <<>>

\* C15: when navigation from outside sets the step parameter to a valid
\* step s while Register is mounted, currentStep becomes s.
C15_LocationIsSourceOfTruth ==
  [][ \A st \in StepSet : ExternalNavigate(st) => currentStep' = st ]_vars

\* the latest status rows report a timestamp for service s
ReportsSynced(s) ==
  /\ syncStatuses.kind = "rows"
  /\ [service |-> s, last_library_sync |-> "ts"] \in syncStatuses.rows

\* C16: sync-status polling is active only while some connected service has
\* a null timestamp: never with zero connected services, and not once
\* every connected service reports a non-null timestamp.
C16_PollsOnlyWhileSyncing ==
  PollingActive
    => /\ connectedServices.data # {}
       /\ ~(\A s \in connectedServices.data : db[s] = "ts" /\ ReportsSynced(s))

C20_NoPollOutsideServices ==
  [][(\E ok \in BOOLEAN : PollSyncStatuses(ok)) => currentStep = "services"]_vars

\* cards are in ascending order of price
Ascending(cards) ==
  \A i, j \in 1..Len(cards) : i < j => cards[i].price <= cards[j].price

\* C18 (as stated): the tiers are rendered in ascending order of price for
\* every order in which the store returns them.
C18_RenderedAscending ==
  (mounted = "Register" /\ subscriptionTiers.status = "success")
    => Ascending(RenderTiers(subscriptionTiers.data))

\* C18 (amended): the tiers are rendered in the order in which the query
\* returned them, card i showing row i; they are in ascending order of
\* price whenever the result is what order("price") asks the store for.
C18_RenderedInReturnedOrder ==
  (mounted = "Register" /\ subscriptionTiers.status = "success")
    => LET data  == subscriptionTiers.data
           cards == RenderTiers(data)
       IN  /\ Len(cards) = Len(data)
           /\ \A i \in 1..Len(data) : cards[i].key = data[i].id
           /\ data \in OrderByPrice(TierRows) => Ascending(cards)

C18_Witness ==
  /\ mounted = "Register"
  /\ currentStep = "subscription"
  /\ subscriptionTiers.status = "success"
  /\ subscriptionTiers.data[1].id = "b"
  /\ RenderTiers(subscriptionTiers.data)[1].key = "b"

\* C19: the storage request of an avatar upload satisfies the own-folder
\* insert policy for the uploading user: the bucket is avatars and the
\* first folder segment of the path is the id of the newly registered
\* user, for every user id and file name.
C19_UploadInOwnFolder ==
  uploadRequest # NoUpload
    => InsertPolicy(uploadRequest.bucket, uploadRequest.path, uploadRequest.uid)

C19_Witness ==
  /\ pc = "upload"
  /\ uploadRequest # NoUpload
  /\ uploadRequest.uid = "u2"
  /\ \E i \in 2..Len(uploadRequest.path) :
       uploadRequest.path[i] = "/" /\ Len(FolderName(uploadRequest.path)) = 2

\* C22: in every state of the avatar sub-machine, of Register and of
\* ProfileCreation, there is a preview URL exactly when there is an avatar
\* file, whatever files were selected, dropped or removed.
C22_PreviewIffAvatar ==
  /\ (previewUrl # NoUrl) <=> (formData.avatar # NoFile)
  /\ (pcPreviewUrl # NoUrl) <=> (pcFormData.avatar # NoFile)

C22_Witness ==
  /\ mounted = "Register"
  /\ created > 0
  /\ previewUrl = NoUrl
  /\ formData.avatar = NoFile
  /\ toast \in {ToastTooBig, ToastNotImage}

\* C23: at most one registration is in flight at any time: from the start
\* of handleRegister until its finally block loading is true and the
\* submit action is disabled, so register is never invoked again before
\* the previous invocation has settled.
C23_SingleInFlight ==
  /\ []((mounted = "Register" /\ pc # "idle") => (loading /\ ~ENABLED HandleRegister))
  /\ [][HandleRegister => pc = "idle"]_vars

C23_Witness ==
  /\ AccountShown
  /\ loading
  /\ pc = "register"
  /\ RequiredFilled(formData)
  /\ formData.password = formData.confirmPassword

\* C21: a failing tier fetch and a failing connection-status fetch each
\* reach the retry policy of the query client: the failure is surfaced as
\* empty data only after exactly one retry, so the first failed attempt
\* of either query surfaces nothing yet.
C21_FailuresRetriedOnce ==
  /\ [](subscriptionTiers.status = "error"
          => /\ subscriptionTiers.failureCount = Retry + 1
             /\ RenderTiers(subscriptionTiers.data) = <<>>)
  /\ [][FetchTiersFailed /\ subscriptionTiers.failureCount = 0
          => subscriptionTiers'.status = "pending"]_vars
  /\ [][FetchSyncStatuses(FALSE) => syncStatuses'.kind = "undefined"]_vars
====
